---- MODULE Spec2Model ----
(***************************************************************************)
(* Model of plugin.py: the two tools of the WebCrawl plugin,               *)
(* WebSearchTool (search_web) and UrlCrawlTool (crawl_url).  Each tool     *)
(* builds a request (headers and JSON body) from the plugin configuration, *)
(* opens an aiohttp session, posts once, and turns the outcome into the    *)
(* mapping {name, content} handed back to the host.                        *)
(*                                                                         *)
(* Representation.  Python str values are TLA+ strings.  The Chinese       *)
(* literals of the source are written with their \uXXXX escapes, since the *)
(* module is ASCII.  A value whose Python type matters (an argument that   *)
(* may be missing, a list element read from the configuration file) is a   *)
(* record [type, v].  A dict is a function from its keys.                  *)
(***************************************************************************)
EXTENDS Integers, Sequences, FiniteSets, TLC

VARIABLES
    plugin_config,   \* self.plugin_config: provider, search and extract sections
    tool,            \* the tool whose execute is running
    function_args,   \* the argument mapping handed to execute
    pc,              \* position of the invocation
    headers,         \* local `headers` of search / crawl
    body,            \* local `body` of search / crawl
    request,         \* the request handed to session.post (endpoint, headers, data)
    session,         \* the aiohttp.ClientSession of this invocation
    sessionsOpened,  \* sessions opened by this invocation
    posts,           \* session.post calls made by this invocation
    response,        \* the response received (status, text)
    ret,             \* value returned by search / crawl
    exc,             \* exception raised by this invocation (NoExc: none)
    result           \* value returned by execute

vars == << plugin_config, tool, function_args, pc, headers, body, request,
           session, sessionsOpened, posts, response, ret, exc, result >>

----------------------------------------------------------------------------
(* Bounds of the model.                                                    *)

\* timeouts tried: -1, 0 and 3, 10, 17, ... (MaxTimeoutStep + 1 positive values)
MaxTimeoutStep == 1
\* longest custom_prehandler_scripts_list tried
MaxScripts == 2
\* status classes tried: 100, 200, ..., 100 * MaxStatusClass
MaxStatusClass == 5

----------------------------------------------------------------------------
(* Python values.                                                          *)

PyStr(s) == [type |-> "str", v |-> s]
PyInt(s) == [type |-> "int", v |-> s]
PyNone == [type |-> "NoneType", v |-> "None"]

\* dict.get(key): the value, or None when the key is missing
DictGet(d, key) == IF key \in DOMAIN d THEN d[key] ELSE PyNone

\* d[key] = value
DictSet(d, key, value) ==
    [k \in DOMAIN d \cup {key} |-> IF k = key THEN value ELSE d[k]]

EmptyDict == [k \in {} |-> ""]

Digit(d) == << "0", "1", "2", "3", "4", "5", "6", "7", "8", "9" >>[d + 1]

RECURSIVE Str(_)
\* str(n) of an int: its decimal digits, with a minus sign when negative
Str(n) ==
    IF n < 0 THEN "-" \o Str(-n)
    ELSE IF n < 10 THEN Digit(n)
    ELSE Str(n \div 10) \o Digit(n % 10)

\* index of the first element of the list that is no str (0: none)
FirstNonStr(list) ==
    IF \E i \in 1..Len(list) : list[i].type # "str"
    THEN CHOOSE i \in 1..Len(list) :
            /\ list[i].type # "str"
            /\ \A j \in 1..(i - 1) : list[j].type = "str"
    ELSE 0

RECURSIVE JoinFrom(_, _)
JoinFrom(list, i) ==
    IF i > Len(list) THEN ""
    ELSE IF i = Len(list) THEN list[i].v
    ELSE list[i].v \o "," \o JoinFrom(list, i + 1)

\* the list joined last element first
JoinReversed(list) ==
    JoinFrom([i \in 1..Len(list) |-> list[Len(list) + 1 - i]], 1)

\* ",".join(list), for a list of str
Join(list) == JoinFrom(list, 1)

\* the TypeError of ",".join(list) for a list holding a non-str element
JoinError(list) ==
    [class |-> "TypeError",
     msg |-> "sequence item " \o Str(FirstNonStr(list) - 1)
             \o ": expected str instance, " \o list[FirstNonStr(list)].type
             \o " found"]

----------------------------------------------------------------------------
(* Literals of the source.                                                 *)

SearchName == "search_web"
CrawlName == "crawl_url"
SearchEndpoint == "https://s.jina.ai/"
CrawlEndpoint == "https://r.jina.ai/"
NotSpecified == "not-specified"
\* "搜索请求失败，状态码: "
SearchStatusMsg == "\\u641c\\u7d22\\u8bf7\\u6c42\\u5931\\u8d25\\uff0c\\u72b6\\u6001\\u7801: "
\* "搜索失败: "
SearchFailPrefix == "\\u641c\\u7d22\\u5931\\u8d25: "
\* "内容提取请求失败，状态码: "
CrawlStatusMsg == "\\u5185\\u5bb9\\u63d0\\u53d6\\u8bf7\\u6c42\\u5931\\u8d25\\uff0c\\u72b6\\u6001\\u7801: "
\* "内容提取失败: "
CrawlFailPrefix == "\\u5185\\u5bb9\\u63d0\\u53d6\\u5931\\u8d25: "

----------------------------------------------------------------------------
(* Request construction.                                                   *)

BaseHeaders(cfg) ==
    [Authorization |-> "Bearer " \o cfg.provider.jina_api_key] @@
    ("Content-Type" :> "application/json")

\* `if cond: headers[key] = value`
SetIf(cond, h, key, value) == IF cond THEN DictSet(h, key, value) ELSE h

\* the two engines exchanged
EngineHeaderSwapped(mode, h) ==
    IF mode = "fast" THEN DictSet(h, "X-Engine", "browser")
    ELSE IF mode = "quality" THEN DictSet(h, "X-Engine", "direct")
    ELSE h

\* the match over engine_mode: fast, quality, anything else
EngineHeader(mode, h) ==
    IF mode = "fast" THEN DictSet(h, "X-Engine", "direct")
    ELSE IF mode = "quality" THEN DictSet(h, "X-Engine", "browser")
    ELSE h

\* a timeout of 0 sent as well
TimeoutHeaderFromZero(timeout, h) ==
    SetIf(timeout >= 0, h, "X-Timeout", Str(timeout))

TimeoutHeader(timeout, h) ==
    SetIf(timeout > 0, h, "X-Timeout", Str(timeout))

\* the image summary keyed by the toggle of the link summary
SearchDetailHeadersCopied(s, h) ==
    LET h1 == EngineHeader(s.engine_mode, h)
        h2 == TimeoutHeader(s.timeout, h1)
        h3 == SetIf(s.remove_pictures, h2, "X-Retain-Images", "none")
        h4 == SetIf(s.move_links_to_end, h3, "X-With-Links-Summary", "true")
        h5 == SetIf(s.move_links_to_end, h4, "X-With-Images-Summary", "true")
    IN  SetIf(s.add_pic_alt, h5, "X-With-Generated-Alt", "true")

\* the branch taken when search.crawl_details is set
SearchDetailHeaders(s, h) ==
    LET h1 == EngineHeader(s.engine_mode, h)
        h2 == TimeoutHeader(s.timeout, h1)
        h3 == SetIf(s.remove_pictures, h2, "X-Retain-Images", "none")
        h4 == SetIf(s.move_links_to_end, h3, "X-With-Links-Summary", "true")
        h5 == SetIf(s.move_pics_to_end, h4, "X-With-Images-Summary", "true")
    IN  SetIf(s.add_pic_alt, h5, "X-With-Generated-Alt", "true")

\* the detail headers built whatever crawl_details says
SearchHeadersUngated(cfg) ==
    LET h == SearchDetailHeaders(cfg.search, BaseHeaders(cfg))
    IN  SetIf(~cfg.search.crawl_details, h, "X-Respond-With", "no-content")

\* the headers WebSearchTool.search builds
SearchHeaders(cfg) ==
    IF cfg.search.crawl_details
    THEN SearchDetailHeaders(cfg.search, BaseHeaders(cfg))
    ELSE DictSet(BaseHeaders(cfg), "X-Respond-With", "no-content")

\* the language field decided by the nation setting
SearchBodyNationOnly(cfg, kw) ==
    LET b0 == DictSet(EmptyDict, "q", kw)
        b1 == SetIf(cfg.search.search_nation # NotSpecified, b0, "gl",
                    PyStr(cfg.search.search_nation))
    IN  SetIf(cfg.search.search_nation # NotSpecified, b1, "hl",
              PyStr(cfg.search.search_language))

\* the body WebSearchTool.search builds for the keywords kw
SearchBody(cfg, kw) ==
    LET b0 == DictSet(EmptyDict, "q", kw)
        b1 == SetIf(cfg.search.search_nation # NotSpecified, b0, "gl",
                    PyStr(cfg.search.search_nation))
    IN  SetIf(cfg.search.search_language # NotSpecified, b1, "hl",
              PyStr(cfg.search.search_language))

\* the custom pre-handler script headers of UrlCrawlTool.crawl
PrehandlerHeaders(e, h) ==
    IF e.use_custom_prehandler_scripts
    THEN SetIf(Len(e.custom_prehandler_scripts_list) > 0,
               DictSet(h, "X-Use-Custom-Prehandler-Scripts", "true"),
               "X-Custom-Prehandler-Scripts-List",
               Join(e.custom_prehandler_scripts_list))
    ELSE h

\* crawl raises while it builds its headers: the join meets a non-str element
CrawlBuildRaises(cfg) ==
    /\ cfg.extract.use_custom_prehandler_scripts
    /\ FirstNonStr(cfg.extract.custom_prehandler_scripts_list) # 0

\* the headers of UrlCrawlTool.crawl up to the custom pre-handler scripts
CrawlHeadersHead(cfg) ==
    LET e == cfg.extract
        h1 == EngineHeader(e.engine_mode, BaseHeaders(cfg))
        h2 == TimeoutHeader(e.timeout, h1)
    IN  SetIf(e.follow_redirect, h2, "X-Follow-Redirects", "true")

\* the headers UrlCrawlTool.crawl builds
CrawlHeaders(cfg) ==
    LET e == cfg.extract
        h4 == PrehandlerHeaders(e, CrawlHeadersHead(cfg))
        h5 == SetIf(e.include_shadow_dom, h4, "X-Include-Shadow-DOM", "true")
        h6 == SetIf(e.include_iframes, h5, "X-Include-Iframes", "true")
        h7 == SetIf(e.remove_pictures, h6, "X-Retain-Images", "none")
        h8 == SetIf(e.use_readerlm_v2, h7, "X-Use-ReaderLM-V2", "true")
        h9 == SetIf(e.move_links_to_end, h8, "X-With-Links-Summary", "true")
        h10 == SetIf(e.move_pics_to_end, h9, "X-With-Images-Summary", "true")
        h11 == SetIf(e.add_pic_alt, h10, "X-With-Generated-Alt", "true")
    IN  SetIf(e.optimize_for_gpt_oss, h11, "X-Optimize-For-GPT-OSS", "true")

\* the body UrlCrawlTool.crawl builds
CrawlBody(url) == DictSet(EmptyDict, "url", url)

\* json.dumps of a body: the members in insertion order, each value as its
\* JSON literal (a str as a JSON string, None as null)
JsonLiteral(value) ==
    IF value.type = "NoneType" THEN [json |-> "null", chars |-> ""]
    ELSE [json |-> "string", chars |-> value.v]

JsonDumps(b) ==
    LET order == << "q", "url", "gl", "hl" >>
        keys == SelectSeq(order, LAMBDA k : k \in DOMAIN b)
    IN  [i \in 1..Len(keys) |-> << keys[i], JsonLiteral(b[keys[i]]) >>]

----------------------------------------------------------------------------
(* Configurations: the schema of WebCrawlPlugin.config_schema.             *)

EngineModes == {"default", "fast", "quality"}
Nations == {NotSpecified, "CN", "US"}
Languages == {NotSpecified, "zh-cn"}
Timeouts == {-1, 0} \cup {7 * k + 3 : k \in 0..MaxTimeoutStep}

\* the schema gives custom_prehandler_scripts_list the type list and nothing
\* for its elements: lists of identifiers, and lists holding a number
ScriptIds == {PyStr("a"), PyStr("b")}
IdLists == UNION {[1..n -> ScriptIds] : n \in 0..MaxScripts}
MixedLists == {<< PyInt("7") >>, << PyStr("a"), PyInt("7") >>}
ScriptLists == IdLists \cup MixedLists

DefaultProvider == [jina_api_key |-> ""]

DefaultSearch ==
    [search_nation |-> "CN", search_language |-> "zh-cn",
     crawl_details |-> FALSE, timeout |-> 10, engine_mode |-> "default",
     remove_pictures |-> TRUE, move_links_to_end |-> TRUE,
     move_pics_to_end |-> TRUE, add_pic_alt |-> TRUE]

DefaultExtract ==
    [timeout |-> 10, follow_redirect |-> TRUE,
     use_custom_prehandler_scripts |-> FALSE,
     custom_prehandler_scripts_list |-> << >>,
     include_shadow_dom |-> FALSE, include_iframes |-> FALSE,
     remove_pictures |-> TRUE, use_readerlm_v2 |-> FALSE,
     move_links_to_end |-> TRUE, move_pics_to_end |-> TRUE,
     add_pic_alt |-> TRUE, optimize_for_gpt_oss |-> FALSE,
     engine_mode |-> "default"]

DefaultConfig ==
    [provider |-> DefaultProvider, search |-> DefaultSearch,
     extract |-> DefaultExtract]

SearchSections ==
    [search_nation : Nations, search_language : Languages,
     crawl_details : BOOLEAN, timeout : Timeouts, engine_mode : EngineModes,
     remove_pictures : BOOLEAN, move_links_to_end : BOOLEAN,
     move_pics_to_end : BOOLEAN, add_pic_alt : BOOLEAN]

ExtractSections ==
    [timeout : Timeouts, follow_redirect : BOOLEAN,
     use_custom_prehandler_scripts : BOOLEAN,
     custom_prehandler_scripts_list : ScriptLists,
     include_shadow_dom : BOOLEAN, include_iframes : BOOLEAN,
     remove_pictures : BOOLEAN, use_readerlm_v2 : BOOLEAN,
     move_links_to_end : BOOLEAN, move_pics_to_end : BOOLEAN,
     add_pic_alt : BOOLEAN, optimize_for_gpt_oss : BOOLEAN,
     engine_mode : EngineModes]

\* every configuration of the section a tool reads; the section it never
\* reads stays at the schema's defaults
ConfigsOf(t) ==
    IF t = SearchName
    THEN {[DefaultConfig EXCEPT !.search = s] : s \in SearchSections}
    ELSE {[DefaultConfig EXCEPT !.extract = e] : e \in ExtractSections}

\* the configurations the whole invocation is run under: with and without
\* an API key, the search section with and without per-result details, the
\* extract section without scripts, with identifiers, with a number among them
HostConfigs ==
    [provider : {DefaultProvider, [jina_api_key |-> "jina_key"]},
     search : {DefaultSearch,
               [DefaultSearch EXCEPT !.crawl_details = TRUE,
                                     !.engine_mode = "fast",
                                     !.search_nation = NotSpecified]},
     extract : {DefaultExtract,
                [DefaultExtract EXCEPT
                    !.use_custom_prehandler_scripts = TRUE,
                    !.custom_prehandler_scripts_list =
                        << PyStr("a"), PyStr("b") >>],
                [DefaultExtract EXCEPT
                    !.use_custom_prehandler_scripts = TRUE,
                    !.custom_prehandler_scripts_list =
                        << PyStr("a"), PyInt("7") >>]}]

\* the argument mappings a tool is called with: its parameter, or nothing
ArgsOf(t) ==
    IF t = SearchName
    THEN { [keywords |-> PyStr("maibot plugin")],
           [keywords |-> PyStr("\"mai bot\" -ads")],
           EmptyDict }
    ELSE { [url |-> PyStr("https://example.com/a")], EmptyDict }

Tools == {SearchName, CrawlName}

\* what the upstream service may answer
Statuses == {100 * k : k \in 1..MaxStatusClass} \cup {204, 404}
Texts == {"OK-RESULT", ""}

----------------------------------------------------------------------------
(* Outcomes of the call.                                                   *)

NoExc == [class |-> "", msg |-> ""]
NoResponse == [status |-> 0, text |-> ""]
NoRequest == [endpoint |-> "", headers |-> EmptyDict, data |-> << >>]

ToolEndpoint(t) == IF t = SearchName THEN SearchEndpoint ELSE CrawlEndpoint

\* `raise Exception(f"...: {response.status}")` of search / crawl
StatusError(t, status) ==
    [class |-> "Exception",
     msg |-> (IF t = SearchName THEN SearchStatusMsg ELSE CrawlStatusMsg)
             \o Str(status)]

\* what session.post and response.text() raise when the transfer fails
ConnectError ==
    [class |-> "ClientConnectorError", msg |-> "Cannot connect to host"]
PayloadError ==
    [class |-> "ClientPayloadError", msg |-> "Response payload is not completed"]

\* a handler that names the client library's errors only
CatchesClientErrors(e) ==
    e.class \in {"ClientConnectorError", "ClientPayloadError"}

\* the classes `except Exception` catches: Exception and what derives from it
Catches(e) ==
    e.class \in {"Exception", "TypeError", "ClientConnectorError",
                 "ClientPayloadError"}

\* a success path that labels the content the way the failure path does
OkResultLabelled(t, value) ==
    [name |-> t, content |-> "OK: " \o value]

\* `return {"name": self.name, "content": <value returned by search / crawl>}`
OkResult(t, value) == [name |-> t, content |-> value]

\* `return {"name": self.name, "content": f"<prefix>{str(e)}"}`
ErrorResult(t, e) ==
    [name |-> t,
     content |-> (IF t = SearchName THEN SearchFailPrefix ELSE CrawlFailPrefix)
                 \o e.msg]

\* a session closed by hand after the request, and so only when nothing raised
SessionClosedByHand(e) == IF e = NoExc THEN "closed" ELSE "open"

\* the session once its `async with` block is left, normally or by an exception
SessionAfterExit(e) == "closed"

----------------------------------------------------------------------------
(* The invocation, step by step.                                           *)

Fresh ==
    /\ headers = EmptyDict /\ body = EmptyDict /\ request = NoRequest
    /\ session = "none" /\ sessionsOpened = 0 /\ posts = 0
    /\ response = NoResponse /\ ret = "" /\ exc = NoExc /\ result = EmptyDict

Init ==
    /\ plugin_config \in HostConfigs
    /\ tool = SearchName /\ function_args = EmptyDict
    /\ pc = "idle"
    /\ Fresh

\* the host calls execute(function_args) of a tool
Execute(t, args) ==
    /\ pc \in {"idle", "returned"}
    /\ tool' = t /\ function_args' = args
    /\ pc' = "executing"
    /\ headers' = EmptyDict /\ body' = EmptyDict /\ request' = NoRequest
    /\ session' = "none" /\ sessionsOpened' = 0 /\ posts' = 0
    /\ response' = NoResponse /\ ret' = "" /\ exc' = NoExc
    /\ result' = EmptyDict
    /\ UNCHANGED plugin_config

\* WebSearchTool.search up to the request: headers and body
SearchBuild ==
    /\ pc = "executing" /\ tool = SearchName
    /\ headers' = SearchHeaders(plugin_config)
    /\ body' = SearchBody(plugin_config, DictGet(function_args, "keywords"))
    /\ pc' = "built"
    /\ UNCHANGED << plugin_config, tool, function_args, request, session,
                    sessionsOpened, posts, response, ret, exc, result >>

\* UrlCrawlTool.crawl up to the request: headers and body, or the TypeError
\* of the join
CrawlBuild ==
    /\ pc = "executing" /\ tool = CrawlName
    /\ body' = CrawlBody(DictGet(function_args, "url"))
    /\ IF CrawlBuildRaises(plugin_config)
       THEN /\ headers' = DictSet(CrawlHeadersHead(plugin_config),
                                  "X-Use-Custom-Prehandler-Scripts", "true")
            /\ exc' = JoinError(
                   plugin_config.extract.custom_prehandler_scripts_list)
            /\ pc' = "except"
       ELSE /\ headers' = CrawlHeaders(plugin_config)
            /\ exc' = exc
            /\ pc' = "built"
    /\ UNCHANGED << plugin_config, tool, function_args, request, session,
                    sessionsOpened, posts, response, ret, result >>

\* `async with aiohttp.ClientSession() as session`
SessionEnter ==
    /\ pc = "built"
    /\ session' = "open"
    /\ sessionsOpened' = sessionsOpened + 1
    /\ pc' = "session"
    /\ UNCHANGED << plugin_config, tool, function_args, headers, body,
                    request, posts, response, ret, exc, result >>

\* session.post(endpoint, headers=headers, data=json.dumps(body)): the
\* service answers, or the transfer fails
Post ==
    /\ pc = "session"
    /\ request' = [endpoint |-> ToolEndpoint(tool), headers |-> headers,
                   data |-> JsonDumps(body)]
    /\ posts' = posts + 1
    /\ \/ \E st \in Statuses, tx \in Texts :
            /\ response' = [status |-> st, text |-> tx]
            /\ exc' = exc
            /\ pc' = "response"
       \/ /\ response' = response
          /\ exc' = ConnectError
          /\ pc' = "leaving"
    /\ UNCHANGED << plugin_config, tool, function_args, headers, body,
                    session, sessionsOpened, ret, result >>

\* a status check that takes every 2xx status for success
HandleResponseAny2xx ==
    /\ pc = "response"
    /\ IF response.status \div 100 = 2
       THEN \/ ret' = response.text /\ exc' = exc
            \/ ret' = ret /\ exc' = PayloadError
       ELSE ret' = ret /\ exc' = StatusError(tool, response.status)
    /\ pc' = "leaving"
    /\ UNCHANGED << plugin_config, tool, function_args, headers, body,
                    request, session, sessionsOpened, posts, response,
                    result >>

\* `if response.status == 200: return await response.text()`, else raise
HandleResponse ==
    /\ pc = "response"
    /\ IF response.status = 200
       THEN \/ ret' = response.text /\ exc' = exc
            \/ ret' = ret /\ exc' = PayloadError
       ELSE ret' = ret /\ exc' = StatusError(tool, response.status)
    /\ pc' = "leaving"
    /\ UNCHANGED << plugin_config, tool, function_args, headers, body,
                    request, session, sessionsOpened, posts, response,
                    result >>

\* the `async with` blocks are left: the session is closed
SessionExit ==
    /\ pc = "leaving"
    /\ session' = SessionAfterExit(exc)
    /\ pc' = IF exc = NoExc THEN "searched" ELSE "except"
    /\ UNCHANGED << plugin_config, tool, function_args, headers, body,
                    request, sessionsOpened, posts, response, ret, exc,
                    result >>

\* the `return` of the try block
ReturnResult ==
    /\ pc = "searched"
    /\ result' = OkResult(tool, ret)
    /\ pc' = "returned"
    /\ UNCHANGED << plugin_config, tool, function_args, headers, body,
                    request, session, sessionsOpened, posts, response, ret,
                    exc >>

\* `except Exception as e`: the error becomes the content; an exception the
\* clause does not catch leaves execute
ReturnError ==
    /\ pc = "except"
    /\ IF Catches(exc)
       THEN /\ result' = ErrorResult(tool, exc)
            /\ pc' = "returned"
       ELSE /\ result' = result
            /\ pc' = "propagated"
    /\ UNCHANGED << plugin_config, tool, function_args, headers, body,
                    request, session, sessionsOpened, posts, response, ret,
                    exc >>

Step ==
    \/ SearchBuild
    \/ CrawlBuild
    \/ SessionEnter
    \/ Post
    \/ HandleResponse
    \/ SessionExit
    \/ ReturnResult
    \/ ReturnError

Next ==
    \/ \E t \in Tools : \E args \in ArgsOf(t) : Execute(t, args)
    \/ Step

Spec == Init /\ [][Next]_vars

\* once called, execute keeps running: the event loop resumes the coroutine
\* and the HTTP call ends in one of its outcomes
FairSpec == Spec /\ WF_vars(Step)

----------------------------------------------------------------------------
(* Request construction alone, over every configuration of a tool's        *)
(* section.                                                                *)

BuildInit ==
    /\ tool \in Tools
    /\ plugin_config \in ConfigsOf(tool)
    /\ function_args \in ArgsOf(tool)
    /\ pc = "executing"
    /\ Fresh

BuildNext == SearchBuild \/ CrawlBuild

BuildSpec == BuildInit /\ [][BuildNext]_vars

----------------------------------------------------------------------------
(* Properties of the invocation, checked under Spec and FairSpec.          *)

Returned == pc = "returned"
\* the HTTP call was made and ended in one of its outcomes: a status, or an
\* exception of the transfer
Answered == response # NoResponse
RequestFailed == exc \in {ConnectError, PayloadError}

C1_ReturnsMapping ==
    /\ pc # "propagated"
    /\ Returned =>
          /\ DOMAIN result = {"name", "content"}
          /\ tool = SearchName => result.name = "search_web"
          /\ tool = CrawlName => result.name = "crawl_url"

\* C1: whatever the configuration, the argument mapping and the outcome of
\* the HTTP call (status 200, another status, an exception raised while the
\* request is built or sent), execute ends by returning a mapping with
\* exactly the keys name and content, name being the tool's own name; no
\* exception leaves execute.
C1_AlwaysReturns ==
    /\ []C1_ReturnsMapping
    /\ (pc = "executing") ~> Returned

\* an extract call that raised while building its headers has returned the
\* error as its content, without opening a session
C1_Witness ==
    /\ Returned /\ tool = CrawlName
    /\ exc.class = "TypeError" /\ sessionsOpened = 0
    /\ result = [name |-> "crawl_url",
                 content |-> CrawlFailPrefix
                     \o "sequence item 1: expected str instance, int found"]

\* C2: on status 200 with body B, execute returns exactly
\* {name: "search_web", content: B} (search) or {name: "crawl_url",
\* content: B} (extract): the text read from the response, unchanged.
C2_BodyVerbatim ==
    (Returned /\ response.status = 200 /\ exc = NoExc) =>
        result = [name |-> IF tool = SearchName THEN "search_web"
                           ELSE "crawl_url",
                  content |-> response.text]

C2_Witness ==
    /\ Returned /\ response.status = 200 /\ exc = NoExc
    /\ tool = CrawlName
    /\ result.content = "OK-RESULT"

\* C3: on a status S other than 200 the search tool returns the content
\* "搜索失败: 搜索请求失败，状态码: S" and the extract tool
\* "内容提取失败: 内容提取请求失败，状态码: S", S in decimal, under the
\* tool's own name; the response body is not the content.
C3_StatusReported ==
    (Returned /\ Answered /\ response.status # 200) =>
        /\ tool = SearchName =>
              result = [name |-> "search_web",
                        content |-> SearchFailPrefix \o SearchStatusMsg
                                    \o ToString(response.status)]
        /\ tool = CrawlName =>
              result = [name |-> "crawl_url",
                        content |-> CrawlFailPrefix \o CrawlStatusMsg
                                    \o ToString(response.status)]
        /\ result.content # response.text

C3_Witness ==
    /\ Returned /\ response.status = 204 /\ response.text = "OK-RESULT"
    /\ tool = SearchName
    /\ result.content = SearchFailPrefix \o SearchStatusMsg \o "204"

----------------------------------------------------------------------------
(* Properties of the request built, checked under BuildSpec.               *)

Has(h, key, value) == key \in DOMAIN h /\ h[key] = value
Lacks(h, key) == key \notin DOMAIN h
\* the toggle t and its header agree: set with the fixed value, or absent
Agree(t, h, key, value) == IF t THEN Has(h, key, value) ELSE Lacks(h, key)

SearchBuilt == pc = "built" /\ tool = SearchName
CrawlBuilt == pc = "built" /\ tool = CrawlName
S == plugin_config.search
E == plugin_config.extract

DetailHeaderNames ==
    {"X-Engine", "X-Timeout", "X-Retain-Images", "X-With-Links-Summary",
     "X-With-Images-Summary", "X-With-Generated-Alt"}

\* C4: with search.crawl_details off, the search request carries
\* X-Respond-With: no-content and none of the per-result detail headers,
\* whatever the other search settings are; with crawl_details on it carries
\* no X-Respond-With.
C4_NoContentWithoutDetails ==
    SearchBuilt =>
        /\ ~S.crawl_details =>
              /\ Has(headers, "X-Respond-With", "no-content")
              /\ DOMAIN headers \cap DetailHeaderNames = {}
        /\ S.crawl_details => Lacks(headers, "X-Respond-With")

\* crawl_details off while every detail setting asks for its header
C4_Witness ==
    /\ SearchBuilt /\ ~S.crawl_details
    /\ S.engine_mode = "fast" /\ S.timeout = 10
    /\ S.remove_pictures /\ S.move_links_to_end
    /\ S.move_pics_to_end /\ S.add_pic_alt
    /\ Has(headers, "X-Respond-With", "no-content")

EngineAgrees(mode, h) ==
    /\ mode = "fast" => Has(h, "X-Engine", "direct")
    /\ mode = "quality" => Has(h, "X-Engine", "browser")
    /\ mode \notin {"fast", "quality"} => Lacks(h, "X-Engine")

\* C5: with crawl_details on, search.engine_mode "fast" gives X-Engine:
\* direct, "quality" gives X-Engine: browser, any other value no X-Engine;
\* the extract request maps extract.engine_mode the same way, always.
C5_EngineMode ==
    /\ (SearchBuilt /\ S.crawl_details) => EngineAgrees(S.engine_mode, headers)
    /\ CrawlBuilt => EngineAgrees(E.engine_mode, headers)

C5_Witness ==
    /\ SearchBuilt /\ S.crawl_details /\ S.engine_mode = "quality"
    /\ Has(headers, "X-Engine", "browser")

SearchTogglesAgree ==
    /\ Agree(S.remove_pictures, headers, "X-Retain-Images", "none")
    /\ Agree(S.move_links_to_end, headers, "X-With-Links-Summary", "true")
    /\ Agree(S.move_pics_to_end, headers, "X-With-Images-Summary", "true")
    /\ Agree(S.add_pic_alt, headers, "X-With-Generated-Alt", "true")

ExtractTogglesAgree ==
    /\ Agree(E.follow_redirect, headers, "X-Follow-Redirects", "true")
    /\ Agree(E.use_custom_prehandler_scripts, headers,
             "X-Use-Custom-Prehandler-Scripts", "true")
    /\ Agree(E.include_shadow_dom, headers, "X-Include-Shadow-DOM", "true")
    /\ Agree(E.include_iframes, headers, "X-Include-Iframes", "true")
    /\ Agree(E.remove_pictures, headers, "X-Retain-Images", "none")
    /\ Agree(E.use_readerlm_v2, headers, "X-Use-ReaderLM-V2", "true")
    /\ Agree(E.move_links_to_end, headers, "X-With-Links-Summary", "true")
    /\ Agree(E.move_pics_to_end, headers, "X-With-Images-Summary", "true")
    /\ Agree(E.add_pic_alt, headers, "X-With-Generated-Alt", "true")
    /\ Agree(E.optimize_for_gpt_oss, headers, "X-Optimize-For-GPT-OSS", "true")

\* C6 as stated: every boolean toggle of the search and extract sections
\* that is mapped to a header is true exactly when the header is present
\* with its fixed value, and false exactly when it is absent.
C6_AsStated ==
    /\ SearchBuilt => SearchTogglesAgree
    /\ CrawlBuilt => ExtractTogglesAgree

\* C6, amended: every extract toggle agrees with its header; a search toggle
\* agrees with its header when crawl_details is on, and with crawl_details
\* off its header is absent whatever the toggle says.
C6_TogglesAgree ==
    /\ (SearchBuilt /\ S.crawl_details) => SearchTogglesAgree
    /\ (SearchBuilt /\ ~S.crawl_details) =>
          DOMAIN headers \cap {"X-Retain-Images", "X-With-Links-Summary",
                               "X-With-Images-Summary",
                               "X-With-Generated-Alt"} = {}
    /\ CrawlBuilt => ExtractTogglesAgree

\* search toggles that differ from one another, with crawl_details on
C6_Witness ==
    /\ SearchBuilt /\ S.crawl_details
    /\ S.move_links_to_end /\ ~S.move_pics_to_end
    /\ S.remove_pictures /\ ~S.add_pic_alt
    /\ Has(headers, "X-With-Links-Summary", "true")
    /\ Lacks(headers, "X-With-Images-Summary")

TimeoutAgrees(timeout, h) ==
    /\ timeout <= 0 => Lacks(h, "X-Timeout")
    /\ timeout > 0 => Has(h, "X-Timeout", ToString(timeout))

\* C7 as stated: in the search and in the extract request, a timeout <= 0
\* gives no X-Timeout header and a timeout > 0 gives X-Timeout equal to the
\* value in decimal.
C7_AsStated ==
    /\ SearchBuilt => TimeoutAgrees(S.timeout, headers)
    /\ CrawlBuilt => TimeoutAgrees(E.timeout, headers)

\* C7, amended: the extract request always follows the rule; the search
\* request follows it when crawl_details is on, and carries no X-Timeout
\* when crawl_details is off.
C7_TimeoutHeader ==
    /\ (SearchBuilt /\ S.crawl_details) => TimeoutAgrees(S.timeout, headers)
    /\ (SearchBuilt /\ ~S.crawl_details) => Lacks(headers, "X-Timeout")
    /\ CrawlBuilt => TimeoutAgrees(E.timeout, headers)

C7_Witness ==
    /\ SearchBuilt /\ S.crawl_details /\ S.timeout = 10
    /\ Has(headers, "X-Timeout", "10")

RECURSIVE CommaJoined(_, _)
\* the first n identifiers, each after the first preceded by a comma
CommaJoined(list, n) ==
    IF n = 0 THEN ""
    ELSE IF n = 1 THEN list[1].v
    ELSE CommaJoined(list, n - 1) \o "," \o list[n].v

\* C8: in the extract request with use_custom_prehandler_scripts on, a
\* non-empty list of identifiers gives X-Custom-Prehandler-Scripts-List equal
\* to the identifiers joined by commas in list order (["a","b"] gives "a,b")
\* beside X-Use-Custom-Prehandler-Scripts: true; an empty list gives the
\* usage header alone.
C8_ScriptList ==
    (CrawlBuilt /\ E.use_custom_prehandler_scripts) =>
        LET list == E.custom_prehandler_scripts_list
        IN  /\ Has(headers, "X-Use-Custom-Prehandler-Scripts", "true")
            /\ list = << >> => Lacks(headers, "X-Custom-Prehandler-Scripts-List")
            /\ list # << >> =>
                  Has(headers, "X-Custom-Prehandler-Scripts-List",
                      CommaJoined(list, Len(list)))
            /\ list = << PyStr("a"), PyStr("b") >> =>
                  headers["X-Custom-Prehandler-Scripts-List"] = "a,b"

C8_Witness ==
    /\ CrawlBuilt /\ E.use_custom_prehandler_scripts
    /\ E.custom_prehandler_scripts_list = << PyStr("b"), PyStr("a") >>
    /\ Has(headers, "X-Custom-Prehandler-Scripts-List", "b,a")

\* C9: the search body holds q, the keywords argument as it was passed; gl,
\* equal to search.search_nation, exactly when that differs from
\* "not-specified"; hl, equal to search.search_language, exactly when that
\* differs from "not-specified"; nothing else; and crawl_details changes
\* none of it.
C9_SearchBody ==
    SearchBuilt =>
        /\ DOMAIN body =
              {"q"} \cup (IF S.search_nation # "not-specified" THEN {"gl"}
                          ELSE {})
                    \cup (IF S.search_language # "not-specified" THEN {"hl"}
                          ELSE {})
        /\ body["q"] = (IF "keywords" \in DOMAIN function_args
                        THEN function_args["keywords"] ELSE PyNone)
        /\ "gl" \in DOMAIN body => body["gl"] = PyStr(S.search_nation)
        /\ "hl" \in DOMAIN body => body["hl"] = PyStr(S.search_language)
        /\ body = SearchBody([plugin_config EXCEPT
                                 !.search.crawl_details = ~S.crawl_details],
                             DictGet(function_args, "keywords"))

\* a nation without a language, and keywords with a quoted phrase
C9_Witness ==
    /\ SearchBuilt
    /\ S.search_nation = "US" /\ S.search_language = "not-specified"
    /\ function_args = [keywords |-> PyStr("\"mai bot\" -ads")]
    /\ DOMAIN body = {"q", "gl"}

====
